---- MODULE Spec2Model ----
(***************************************************************************)
(* A model of the String class of str.h / str.cpp: an owning byte buffer   *)
(* (_data) with a version counter (_version), the checked iterators issued *)
(* by begin()/end(), the radix-aware text-to-integer conversions, and the  *)
(* relational operators.                                                   *)
(*                                                                         *)
(* A char is modelled by its code, 0..127 (the "C" locale's ASCII range).  *)
(* A std::string is the sequence of its chars; C++ index i is TLA+ index   *)
(* i + 1.  A String is the record [data, version].  A member function is   *)
(* an operator from the receiver (self) and the arguments to the record    *)
(* [self, ret, err]: the receiver afterwards, the value returned, and the  *)
(* message kind passed to error(), or "none".                              *)
(***************************************************************************)
EXTENDS Integers, Sequences, FiniteSets, TLC

VARIABLES this, cursor, mutated, call, other, stack

vars == <<this, cursor, mutated, call, other, stack>>

(***************************************************************************)
(* Bounds of the model.                                                    *)
(***************************************************************************)
\* Longest String of the versioning specification.
MaxLen == 2
\* Longest text argument (StringView) of the versioning specification.
MaxArg == 1
\* The version counter is capped here by the guards of the mutating actions.
MaxVersion == 2

\* The chars of the Strings of the versioning specification, ' ', 'A', 'a',
\* and of the text arguments of its calls, ' ', 'a'.
Chars == {32, 65, 97}
ArgChars == {32, 97}

SeqsUpTo(S, n) == UNION {[1..k -> S] : k \in 0..n}

Strings == SeqsUpTo(Chars, MaxLen)
Texts == SeqsUpTo(ArgChars, MaxArg)
Indices == -1..(MaxLen + 1)
Lengths == -1..MaxLen

NoRet == "void"
\* No cursor is held: a version no String has.
NoCursor == [ver |-> -1, pos |-> 0]

(***************************************************************************)
(* <cctype> in the "C" locale.                                             *)
(***************************************************************************)
isspace(c) == c \in {9, 10, 11, 12, 13, 32}
isdigit(c) == c \in 48..57
isupper(c) == c \in 65..90
islower(c) == c \in 97..122
isalpha(c) == isupper(c) \/ islower(c)
isalnum(c) == isalpha(c) \/ isdigit(c)
isxdigit(c) == isdigit(c) \/ c \in 65..70 \/ c \in 97..102
tolower(c) == IF isupper(c) THEN c + 32 ELSE c
toupper(c) == IF islower(c) THEN c - 32 ELSE c

(***************************************************************************)
(* std::string members used by the class.                                  *)
(***************************************************************************)
Min(a, b) == IF a < b THEN a ELSE b

\* str.erase(pos, n), pos <= size: removes min(n, size - pos) chars at pos.
erase(str, pos, n) ==
    SubSeq(str, 1, pos) \o SubSeq(str, pos + Min(n, Len(str) - pos) + 1, Len(str))

\* str.insert(pos, text), pos <= size.
stdInsert(str, pos, text) ==
    SubSeq(str, 1, pos) \o text \o SubSeq(str, pos + 1, Len(str))

\* str.substr(pos, n), pos <= size: min(n, size - pos) chars from pos.
stdSubstr(str, pos, n) == SubSeq(str, pos + 1, pos + Min(n, Len(str) - pos))

\* std::string::npos, as the int the callers turn it into.
npos == -1

\* str.find(text, pos): a forward scan for the first match at or after pos.
RECURSIVE stdFind(_, _, _)
stdFind(str, text, pos) ==
    IF pos + Len(text) > Len(str) THEN npos
    ELSE IF SubSeq(str, pos + 1, pos + Len(text)) = text THEN pos
    ELSE stdFind(str, text, pos + 1)

\* str.rfind(text, pos): a backward scan from min(pos, size - n).
RECURSIVE stdRfindFrom(_, _, _)
stdRfindFrom(str, text, i) ==
    IF i < 0 THEN npos
    ELSE IF SubSeq(str, i + 1, i + Len(text)) = text THEN i
    ELSE stdRfindFrom(str, text, i - 1)

\* An rfind that scans from the end whatever pos is.
stdRfindFromEnd(str, text, pos) ==
    IF Len(text) > Len(str) THEN npos
    ELSE stdRfindFrom(str, text, Len(str) - Len(text))

stdRfind(str, text, pos) ==
    IF Len(text) > Len(str) THEN npos
    ELSE stdRfindFrom(str, text, Min(pos, Len(str) - Len(text)))

(***************************************************************************)
(* Results of a member function.                                           *)
(***************************************************************************)
Ok(self, ret) == [self |-> self, ret |-> ret, err |-> "none"]
Raise(self, msg) == [self |-> self, ret |-> NoRet, err |-> msg]

\* A String as constructed: String(StringView) and String(n, ch) leave the
\* version tracker at its initial value.
InitialVersion == 0
NewString(data) == [data |-> data, version |-> InitialVersion]

\* VersionTracker::update()
VersionTracker_update(v) == v + 1

\* String::updateVersion
updateVersion(self) == [self EXCEPT !.version = VersionTracker_update(@)]

\* String::length
length(self) == Len(self.data)

\* A checkIndex whose upper bound is exclusive.
checkIndexExclusive(index, low, high) == ~(index < low \/ index >= high)

\* String::checkIndex: TRUE when the index passes, FALSE when error() is called.
checkIndex(index, low, high) == ~(index < low \/ index > high)

(***************************************************************************)
(* Element access, removal, insertion, append.                             *)
(***************************************************************************)
\* String::String(int numCopies, char ch), called where self is in scope: ret
\* is the String constructed, or nothing when the constructor raises.
StringCopies(self, numCopies, ch) ==
    IF numCopies < 0
    THEN Raise(self, "String::String: numCopies < 0")
    ELSE Ok(self, NewString([k \in 1..numCopies |-> ch]))

\* char String::operator[](int index) const
operatorIndex(self, index) ==
    IF ~checkIndex(index, 0, length(self) - 1)
    THEN Raise(self, "operator[]: index out of range")
    ELSE Ok(self, self.data[index + 1])

\* An element store that lands on the first char whatever the index.
operatorIndexAssignFirst(self, index, ch) ==
    IF ~checkIndex(index, 0, length(self) - 1)
    THEN Raise(self, "operator[]: index out of range")
    ELSE Ok([self EXCEPT !.data[1] = ch], NoRet)

\* char& String::operator[](int index), followed by the caller's store of ch
\* through the reference returned: text[index] = ch.
operatorIndexAssign(self, index, ch) ==
    IF ~checkIndex(index, 0, length(self) - 1)
    THEN Raise(self, "operator[]: index out of range")
    ELSE Ok([self EXCEPT !.data[index + 1] = ch], NoRet)

\* A remove that updates the version only when it erased something.
removeQuiet(self, index, len) ==
    IF ~checkIndex(index, 0, length(self))
    THEN Raise(self, "remove: index out of range")
    ELSE IF len < 0
    THEN Raise(self, "remove: Negative length.")
    ELSE LET erased == [self EXCEPT !.data = erase(@, index, len)]
         IN  Ok(IF erased.data = self.data THEN erased ELSE updateVersion(erased),
                NoRet)

\* A remove that updates the version before it checks its arguments.
removeBumpFirst(self, index, len) ==
    IF ~checkIndex(index, 0, length(self))
    THEN Raise(updateVersion(self), "remove: index out of range")
    ELSE IF len < 0
    THEN Raise(updateVersion(self), "remove: Negative length.")
    ELSE Ok(updateVersion([self EXCEPT !.data = erase(@, index, len)]), NoRet)

\* void String::remove(int index, int length)
remove(self, index, len) ==
    IF ~checkIndex(index, 0, length(self))
    THEN Raise(self, "remove: index out of range")
    ELSE IF len < 0
    THEN Raise(self, "remove: Negative length.")
    ELSE Ok(updateVersion([self EXCEPT !.data = erase(@, index, len)]), NoRet)

\* void String::remove(int index)
remove1(self, index) == remove(self, index, 1)

\* void String::insert(int index, StringView text)
insert(self, index, text) ==
    IF ~checkIndex(index, 0, length(self))
    THEN Raise(self, "insert: index out of range")
    ELSE Ok(updateVersion([self EXCEPT !.data = stdInsert(@, index, text)]), NoRet)

\* String& String::operator+=(StringView text)
operatorPlusAssign(self, text) ==
    Ok(updateVersion([self EXCEPT !.data = @ \o text]), NoRet)

(***************************************************************************)
(* Case conversion.                                                        *)
(***************************************************************************)
\* void String::toLowerCase()
toLowerCase(self) ==
    Ok([self EXCEPT !.data = [i \in DOMAIN @ |-> tolower(@[i])]], NoRet)

\* A toUpperCase that updates the version.
toUpperCaseVersioned(self) ==
    Ok(updateVersion([self EXCEPT !.data = [i \in DOMAIN @ |-> toupper(@[i])]]),
       NoRet)

\* void String::toUpperCase()
toUpperCase(self) ==
    Ok([self EXCEPT !.data = [i \in DOMAIN @ |-> toupper(@[i])]], NoRet)

\* String String::asLowerCase() const: the copy is converted and returned.
asLowerCase(self) == Ok(self, toLowerCase(self).self)

\* String String::asUpperCase() const
asUpperCase(self) == Ok(self, toUpperCase(self).self)

(***************************************************************************)
(* Trimming.                                                               *)
(***************************************************************************)
RECURSIVE trimStartScan(_, _)
trimStartScan(str, start) ==
    IF start <= Len(str) - 1 /\ isspace(str[start + 1])
    THEN trimStartScan(str, start + 1)
    ELSE start

\* trimStartInPlace(std::string&)
trimStartInPlace(str) ==
    LET start == trimStartScan(str, 0)
    IN  IF start > 0 THEN erase(str, 0, start) ELSE str

RECURSIVE trimEndScan(_, _)
trimEndScan(str, finish) ==
    IF finish > 0 /\ isspace(str[finish])
    THEN trimEndScan(str, finish - 1)
    ELSE finish

\* trimEndInPlace(std::string&)
trimEndInPlace(str) ==
    LET end == Len(str)
        finish == trimEndScan(str, end)
    IN  IF finish < end THEN erase(str, finish, end - finish) ELSE str

\* trimInPlace(std::string&)
trimInPlace(str) == trimStartInPlace(trimEndInPlace(str))

\* void String::trimFront()
trimFront(self) ==
    Ok(updateVersion([self EXCEPT !.data = trimStartInPlace(@)]), NoRet)

\* void String::trimBack()
trimBack(self) ==
    Ok(updateVersion([self EXCEPT !.data = trimEndInPlace(@)]), NoRet)

\* A trim that updates the version only when it removed whitespace.
trimQuiet(self) ==
    LET trimmedData == trimInPlace(self.data)
    IN  Ok(IF trimmedData = self.data
           THEN self
           ELSE updateVersion([self EXCEPT !.data = trimmedData]),
           NoRet)

\* void String::trim()
trim(self) ==
    Ok(updateVersion([self EXCEPT !.data = trimInPlace(@)]), NoRet)

\* A trimmed that trims the receiver itself and returns it.
trimmedInPlace(self) == Ok(trim(self).self, trim(self).self)

\* String String::trimmed() const: the copy is trimmed and returned.
trimmed(self) == Ok(self, trim(self).self)

\* String String::frontTrimmed() const
frontTrimmed(self) == Ok(self, trimFront(self).self)

\* String String::backTrimmed() const
backTrimmed(self) == Ok(self, trimBack(self).self)

(***************************************************************************)
(* Search and substrings.                                                  *)
(***************************************************************************)
\* bool String::contains(StringView text) const
contains(self, text) == Ok(self, stdFind(self.data, text, 0) # npos)

\* int String::find(StringView text, int startIndex) const
find(self, text, startIndex) ==
    IF startIndex < 0
    THEN Raise(self, "find: Start index must be greater than or equal to zero.")
    ELSE Ok(self, stdFind(self.data, text, startIndex))

\* int String::findFromBack(StringView text, int lastIndex) const
findFromBack(self, text, lastIndex) ==
    IF lastIndex < 0
    THEN Raise(self, "findFromBack: Start index must be greater than or equal to zero.")
    ELSE Ok(self, stdRfind(self.data, text, lastIndex))

\* int String::findFromBack(StringView text) const
findFromBack1(self, text) == findFromBack(self, text, length(self))

\* A substr that takes its chars from the front whatever the start.
substrFromFront(self, start, len) ==
    IF ~checkIndex(start, 0, length(self))
    THEN Raise(self, "substr: index out of range")
    ELSE IF len < 0
    THEN Raise(self, "substr: Negative length.")
    ELSE Ok(self, NewString(stdSubstr(self.data, 0, len)))

\* String String::substr(int start, int length) const
substr(self, start, len) ==
    IF ~checkIndex(start, 0, length(self))
    THEN Raise(self, "substr: index out of range")
    ELSE IF len < 0
    THEN Raise(self, "substr: Negative length.")
    ELSE Ok(self, NewString(stdSubstr(self.data, start, len)))

\* String String::substr(int start) const
substr1(self, start) == substr(self, start, length(self))

(***************************************************************************)
(* Split and replace-all.                                                  *)
(***************************************************************************)
\* A split loop that adds the empty tokens too.
RECURSIVE stringSplitLoopKeepEmpty(_, _, _)
stringSplitLoopKeepEmpty(str2, delimiter, result) ==
    LET index == stdFind(str2, delimiter, 0)
    IN  IF index = npos
        THEN Append(result, NewString(str2))
        ELSE stringSplitLoopKeepEmpty(
                 erase(str2, 0, index + Len(delimiter)),
                 delimiter,
                 Append(result, NewString(stdSubstr(str2, 0, index))))

\* The while (true) loop of stringSplit: str2 is what is left of the text,
\* result the tokens added so far.
RECURSIVE stringSplitLoop(_, _, _)
stringSplitLoop(str2, delimiter, result) ==
    LET index == stdFind(str2, delimiter, 0)
    IN  IF index = npos
        THEN IF Len(str2) > 0 THEN Append(result, NewString(str2)) ELSE result
        ELSE stringSplitLoop(
                 erase(str2, 0, index + Len(delimiter)),
                 delimiter,
                 IF index # 0
                 THEN Append(result, NewString(stdSubstr(str2, 0, index)))
                 ELSE result)

\* Vector<String> stringSplit(const std::string& str, StringView delimiter)
stringSplit(str, delimiter) == stringSplitLoop(str, delimiter, <<>>)

\* Vector<String> String::split(StringView delimiters) const
split(self, delimiters) ==
    IF Len(delimiters) = 0
    THEN Raise(self, "stringSplit: Delimiter cannot be the empty string.")
    ELSE Ok(self, stringSplit(self.data, delimiters))

\* str.replace(pos, n, with)
stdReplace(str, pos, n, with) == stdInsert(erase(str, pos, n), pos, with)

\* A replace loop that leaves the version alone.
RECURSIVE replaceAllLoopQuiet(_, _, _, _)
replaceAllLoopQuiet(self, text, with, i) ==
    IF i = npos THEN self
    ELSE LET replaced == [self EXCEPT !.data = stdReplace(@, i, Len(text), with)]
         IN  replaceAllLoopQuiet(replaced, text, with,
                                 stdFind(replaced.data, text, i + Len(with)))

\* The for loop of String::replaceAll, at the match found at i.
RECURSIVE replaceAllLoop(_, _, _, _)
replaceAllLoop(self, text, with, i) ==
    IF i = npos THEN self
    ELSE LET replaced == updateVersion(
                 [self EXCEPT !.data = stdReplace(@, i, Len(text), with)])
         IN  replaceAllLoop(replaced, text, with,
                            stdFind(replaced.data, text, i + Len(with)))

\* A replaceAll that stops after the first substitution.
replaceFirst(self, text, with) ==
    IF Len(text) = 0
    THEN Raise(self, "replaceAll: Cannot replace the empty string.")
    ELSE LET i == stdFind(self.data, text, 0)
         IN  IF i = npos THEN Ok(self, NoRet)
             ELSE Ok(updateVersion(
                         [self EXCEPT !.data = stdReplace(@, i, Len(text), with)]),
                     NoRet)

\* void String::replaceAll(StringView text, StringView with)
replaceAll(self, text, with) ==
    IF Len(text) = 0
    THEN Raise(self, "replaceAll: Cannot replace the empty string.")
    ELSE Ok(replaceAllLoop(self, text, with, stdFind(self.data, text, 0)), NoRet)

(***************************************************************************)
(* Join.  A Vector<String> is the sequence of its elements.                *)
(***************************************************************************)
\* A join loop that puts the delimiter after every element.
RECURSIVE joinLoopTrailing(_, _, _, _)
joinLoopTrailing(v, delimiter, i, result) ==
    IF i >= Len(v) THEN result
    ELSE joinLoopTrailing(v, delimiter, i + 1,
             operatorPlusAssign(operatorPlusAssign(result, v[i + 1].data).self,
                                delimiter).self)

\* The for loop of String::join at index i, result the String built so far.
RECURSIVE joinLoop(_, _, _, _)
joinLoop(v, delimiter, i, result) ==
    IF i >= Len(v) THEN result
    ELSE LET element == operatorPlusAssign(result, v[i + 1].data).self
             between == IF i + 1 # Len(v)
                        THEN operatorPlusAssign(element, delimiter).self
                        ELSE element
         IN  joinLoop(v, delimiter, i + 1, between)

\* static String String::join(const Vector<String>& v, const StringView delimiter)
join(v, delimiter) == joinLoop(v, delimiter, 0, NewString(<<>>))

(***************************************************************************)
(* URL encoding and decoding.                                              *)
(***************************************************************************)
\* The pass-through chars without '*'.
isUnreservedNoStar(c) == isalnum(c) \/ c \in {45, 95, 46, 126}

\* The chars both loops pass through: alphanumerics and - _ . ~ *
isUnreserved(c) == isalnum(c) \/ c \in {45, 95, 46, 126, 42}

\* A hex digit valued as a decimal digit is.
hexValueDecimal(ch) == ch - 48

\* The value of a hex digit, as urlDecoded computes it.
hexValue(ch) == IF isdigit(ch) THEN ch - 48 ELSE toupper(ch) - 65 + 10

\* The for loop of String::urlDecoded at iterator position i.
RECURSIVE urlDecodedLoop(_, _, _)
urlDecodedLoop(self, i, unescaped) ==
    LET n == length(self)
        c == self.data[i + 1]
    IN  IF i = n THEN Ok(self, NewString(unescaped))
        ELSE IF isUnreserved(c)
        THEN urlDecodedLoop(self, i + 1, Append(unescaped, c))
        ELSE IF c = 43
        THEN urlDecodedLoop(self, i + 1, Append(unescaped, 32))
        ELSE IF c = 37
        THEN IF \/ i + 2 >= n
                \/ ~isxdigit(self.data[i + 2])
                \/ ~isxdigit(self.data[i + 3])
             THEN Raise(self, "urlDecode: Invalid percent-encoding")
             ELSE LET decodedChar == hexValue(self.data[i + 2]) * 16
                                     + hexValue(self.data[i + 3])
                  IN  urlDecodedLoop(self, i + 3, Append(unescaped, decodedChar % 256))
        ELSE Raise(self, "urlDecode: Unexpected character in string")

\* String String::urlDecoded() const
urlDecoded(self) == urlDecodedLoop(self, 0, <<>>)

\* One uppercase hex digit.
hexDigit(d) == IF d < 10 THEN 48 + d ELSE 55 + d

\* operator<< of a non-negative int under std::hex and std::uppercase.
RECURSIVE hexUpper(_)
hexUpper(n) ==
    IF n < 16 THEN <<hexDigit(n)>>
    ELSE Append(hexUpper(n \div 16), hexDigit(n % 16))

\* int(c): a char of code 128..255 is negative where char is signed.
charToInt(c, charIsSigned) == IF charIsSigned /\ c >= 128 THEN c - 256 ELSE c

\* escaped << setw(2) << int(c), with hex, uppercase and setfill('0') set: a
\* negative int is written as its 32-bit two's complement, 0xFFFFFF00 + c.
hexField(v) ==
    IF v < 0 THEN <<70, 70, 70, 70, 70, 70>> \o hexUpper(v + 256)
    ELSE LET digits == hexUpper(v)
         IN  IF Len(digits) < 2 THEN <<48>> \o digits ELSE digits

\* The for loop of String::urlEncoded at iterator position i.
RECURSIVE urlEncodedLoop(_, _, _, _)
urlEncodedLoop(self, i, escaped, charIsSigned) ==
    LET c == self.data[i + 1]
    IN  IF i = length(self) THEN escaped
        ELSE IF isUnreserved(c)
        THEN urlEncodedLoop(self, i + 1, Append(escaped, c), charIsSigned)
        ELSE IF c = 32
        THEN urlEncodedLoop(self, i + 1, Append(escaped, 43), charIsSigned)
        ELSE urlEncodedLoop(self, i + 1,
                 escaped \o <<37>> \o hexField(charToInt(c, charIsSigned)),
                 charIsSigned)

\* String String::urlEncoded() const, in a build where char is signed or not.
urlEncoded(self, charIsSigned) ==
    Ok(self, NewString(urlEncodedLoop(self, 0, <<>>, charIsSigned)))

(***************************************************************************)
(* Checked iterators.  A cursor is [ver, pos]: the version of the String   *)
(* when begin()/end() issued it and its offset into _data.                 *)
(***************************************************************************)
\* String::begin
begin(self) == [ver |-> self.version, pos |-> 0]

\* String::end
end(self) == [ver |-> self.version, pos |-> length(self)]

UseKinds == {"deref", "inc", "dec", "cmp"}

\* CheckedIterator: operator*, operator++, operator-- and the comparison with
\* end(), each after the check of the version captured against the owner's.
\* The result is [cur, ret, err].
checkedUse(self, cur, kind) ==
    IF cur.ver # self.version
    THEN [cur |-> cur, ret |-> NoRet, err |-> "invalidated iterator"]
    ELSE IF kind = "cmp"
    THEN [cur |-> cur, ret |-> (cur.pos = length(self)), err |-> "none"]
    ELSE IF kind = "deref" /\ cur.pos < length(self)
    THEN [cur |-> cur, ret |-> self.data[cur.pos + 1], err |-> "none"]
    ELSE IF kind = "inc" /\ cur.pos < length(self)
    THEN [cur |-> [cur EXCEPT !.pos = @ + 1], ret |-> NoRet, err |-> "none"]
    ELSE IF kind = "dec" /\ cur.pos > 0
    THEN [cur |-> [cur EXCEPT !.pos = @ - 1], ret |-> NoRet, err |-> "none"]
    ELSE [cur |-> cur, ret |-> NoRet, err |-> "iterator out of range"]

(***************************************************************************)
(* The versioning specification: one String, one cursor into it, and the   *)
(* calls a client can make on them.  call is the call that has just been   *)
(* made, until the client takes its result: its name, arguments, the value *)
(* it returned, the error it raised, and the String and the cursor as they  *)
(* were when it was made.  mutated is a history variable: whether remove,  *)
(* insert or a trim has succeeded since the cursor was issued, and whether *)
(* every such call left the bytes as they were.                            *)
(***************************************************************************)
Called(op, args, res) ==
    [op |-> op, args |-> args, err |-> res.err, ret |-> res.ret,
     before |-> [this |-> this, cursor |-> cursor]]

Idle == [op |-> "none", args |-> <<>>, err |-> "none", ret |-> NoRet,
         before |-> [this |-> NewString(<<>>), cursor |-> NoCursor]]
Invalidating == {"remove", "remove1", "insert", "trim", "trimFront", "trimBack"}

Init ==
    /\ this \in {NewString(d) : d \in Strings}
    /\ cursor = NoCursor
    /\ mutated = "no"
    /\ call = Idle
    /\ other = <<>>
    /\ stack = <<>>

\* A call of a member function on this, with result res.
Do(op, args, res) ==
    /\ call.op = "none"
    /\ Len(res.self.data) <= MaxLen
    /\ res.self.version <= MaxVersion
    /\ this' = res.self
    /\ call' = Called(op, args, res)
    /\ mutated' = IF cursor # NoCursor /\ op \in Invalidating /\ res.err = "none"
                  THEN IF mutated = "changed" \/ res.self.data # this.data
                       THEN "changed"
                       ELSE "same bytes"
                  ELSE mutated
    /\ UNCHANGED <<cursor, other, stack>>

IndexRead == \E index \in Indices :
    Do("operator[] const", <<index>>, operatorIndex(this, index))

IndexWrite == \E index \in Indices, ch \in Chars :
    Do("operator[]=", <<index, ch>>, operatorIndexAssign(this, index, ch))

Remove == \E index \in Indices, len \in Lengths :
    Do("remove", <<index, len>>, remove(this, index, len))

Remove1 == \E index \in Indices :
    Do("remove1", <<index>>, remove1(this, index))

Insert == \E index \in Indices, text \in Texts :
    Do("insert", <<index, text>>, insert(this, index, text))

PlusAssign == \E text \in Texts :
    Do("operator+=", <<text>>, operatorPlusAssign(this, text))

ToLowerCase == Do("toLowerCase", <<>>, toLowerCase(this))

ToUpperCase == Do("toUpperCase", <<>>, toUpperCase(this))

AsLowerCase == Do("asLowerCase", <<>>, asLowerCase(this))

AsUpperCase == Do("asUpperCase", <<>>, asUpperCase(this))

TrimFront == Do("trimFront", <<>>, trimFront(this))

TrimBack == Do("trimBack", <<>>, trimBack(this))

Trim == Do("trim", <<>>, trim(this))

Trimmed == Do("trimmed", <<>>, trimmed(this))

FrontTrimmed == Do("frontTrimmed", <<>>, frontTrimmed(this))

BackTrimmed == Do("backTrimmed", <<>>, backTrimmed(this))

Contains == \E text \in Texts :
    Do("contains", <<text>>, contains(this, text))

Find == \E text \in Texts, startIndex \in Indices :
    Do("find", <<text, startIndex>>, find(this, text, startIndex))

FindFromBack == \E text \in Texts, lastIndex \in Indices :
    Do("findFromBack", <<text, lastIndex>>, findFromBack(this, text, lastIndex))

Substr == \E start \in Indices, len \in Lengths :
    Do("substr", <<start, len>>, substr(this, start, len))

Substr1 == \E start \in Indices :
    Do("substr1", <<start>>, substr1(this, start))

Split == \E delimiter \in Texts :
    Do("split", <<delimiter>>, split(this, delimiter))

ReplaceAll == \E text \in Texts, with \in Texts :
    Do("replaceAll", <<text, with>>, replaceAll(this, text, with))

UrlDecoded == Do("urlDecoded", <<>>, urlDecoded(this))

UrlEncoded == \E charIsSigned \in BOOLEAN :
    Do("urlEncoded", <<>>, urlEncoded(this, charIsSigned))

\* begin() or end() hands out a new cursor, which replaces the one held.
Begin ==
    /\ call.op = "none"
    /\ cursor' = begin(this)
    /\ mutated' = "no"
    /\ call' = Called("begin", <<>>, Ok(this, NoRet))
    /\ UNCHANGED <<this, other, stack>>

End ==
    /\ call.op = "none"
    /\ cursor' = end(this)
    /\ mutated' = "no"
    /\ call' = Called("end", <<>>, Ok(this, NoRet))
    /\ UNCHANGED <<this, other, stack>>

\* A use of the cursor held.
CursorUse == \E kind \in UseKinds :
    /\ call.op = "none"
    /\ cursor # NoCursor
    /\ LET res == checkedUse(this, cursor, kind)
       IN  /\ cursor' = res.cur
           /\ call' = Called("cursor", <<kind>>, res)
    /\ UNCHANGED <<this, mutated, other, stack>>

\* The client takes the result of the call; the next call can be made.
Return ==
    /\ call.op # "none"
    /\ call' = Idle
    /\ UNCHANGED <<this, cursor, mutated, other, stack>>

Next ==
    \/ IndexRead \/ IndexWrite
    \/ Remove \/ Remove1 \/ Insert \/ PlusAssign
    \/ ToLowerCase \/ ToUpperCase \/ AsLowerCase \/ AsUpperCase
    \/ TrimFront \/ TrimBack \/ Trim
    \/ Trimmed \/ FrontTrimmed \/ BackTrimmed
    \/ Contains \/ Find \/ FindFromBack \/ Substr \/ Substr1 \/ Split
    \/ ReplaceAll \/ UrlDecoded \/ UrlEncoded
    \/ Begin \/ End \/ CursorUse
    \/ Return

Spec == Init /\ [][Next]_vars

(***************************************************************************)
(* Conversions: String::to<T> and String::is<T>.                           *)
(***************************************************************************)
\* The text of a string literal, as char codes.
TextTrue == <<116, 114, 117, 101>>
TextFalse == <<102, 97, 108, 115, 101>>
TextMaybe == <<109, 97, 121, 98, 101>>

\* The integral types T of the model: std::numeric_limits<T>.
Limits(T) ==
    CASE T = "signed char" -> [signed |-> TRUE, min |-> -128, max |-> 127]
      [] T = "unsigned char" -> [signed |-> FALSE, min |-> 0, max |-> 255]
      [] T = "unsigned short" -> [signed |-> FALSE, min |-> 0, max |-> 65535]
      [] T = "int" -> [signed |-> TRUE, min |-> -2147483647 - 1, max |-> 2147483647]

IntegralTypes == {"signed char", "unsigned char", "unsigned short", "int"}

\* The value of a char as a digit of strtoll / strtoull: 0-9, a-z and A-Z
\* stand for 0..35; any other char is no digit in any radix.
digitValue(c) ==
    IF isdigit(c) THEN c - 48
    ELSE IF isalpha(c) THEN toupper(c) - 65 + 10
    ELSE 36

\* The first index at or after i that holds no whitespace.
RECURSIVE skipSpace(_, _)
skipSpace(str, i) ==
    IF i < Len(str) /\ isspace(str[i + 1]) THEN skipSpace(str, i + 1) ELSE i

\* The digits of the radix from index i on: [value, end], end the index of
\* the first char that is no digit.
RECURSIVE scanDigits(_, _, _, _)
scanDigits(str, i, radix, acc) ==
    IF i < Len(str) /\ digitValue(str[i + 1]) < radix
    THEN scanDigits(str, i + 1, radix, acc * radix + digitValue(str[i + 1]))
    ELSE [value |-> acc, end |-> i]

\* strtoll / strtoull on str: whitespace is skipped, then an optional sign,
\* then for radix 16 an optional 0x or 0X that a hex digit follows, then the
\* longest run of digits; what follows the digits is left unread.  The
\* result is [converted, negative, magnitude]: converted is FALSE when no
\* digit was read.  The texts of the model are too short for a magnitude
\* beyond long long, so ERANGE does not arise.
strtoll(str, radix) ==
    LET afterSpace == skipSpace(str, 0)
        hasSign == afterSpace < Len(str) /\ str[afterSpace + 1] \in {43, 45}
        negative == hasSign /\ str[afterSpace + 1] = 45
        afterSign == IF hasSign THEN afterSpace + 1 ELSE afterSpace
        hasPrefix == /\ radix = 16
                     /\ afterSign + 2 < Len(str)
                     /\ str[afterSign + 1] = 48
                     /\ str[afterSign + 2] \in {88, 120}
                     /\ digitValue(str[afterSign + 3]) < 16
        start == IF hasPrefix THEN afterSign + 2 ELSE afterSign
        digits == scanDigits(str, start, radix, 0)
    IN  [converted |-> digits.end > start,
         negative |-> negative,
         magnitude |-> digits.value]

\* std::stoll(str, nullptr, radix): throws std::invalid_argument when
\* nothing was converted.
stoll(str, radix) ==
    LET r == strtoll(str, radix)
    IN  IF ~r.converted THEN [thrown |-> TRUE, wrapped |-> FALSE, value |-> 0]
        ELSE [thrown |-> FALSE, wrapped |-> FALSE,
              value |-> IF r.negative THEN -r.magnitude ELSE r.magnitude]

\* std::stoull(str, nullptr, radix): as stoll, but a minus sign negates the
\* magnitude m modulo 2^64.  wrapped says the value is 2^64 - m, beyond
\* every type of the model.
stoull(str, radix) ==
    LET r == strtoll(str, radix)
    IN  IF ~r.converted THEN [thrown |-> TRUE, wrapped |-> FALSE, value |-> 0]
        ELSE [thrown |-> FALSE,
              wrapped |-> r.negative /\ r.magnitude > 0,
              value |-> r.magnitude]

\* radixConvert<T, Intermediate>(converter): the converter's exception and
\* a result outside [min(T), max(T)] both end in error().
radixConvert(str, T, converted) ==
    IF converted.thrown
    THEN Raise(str, "String::to: Could not convert string to that type.")
    ELSE IF /\ ~converted.wrapped
            /\ converted.value >= Limits(T).min
            /\ converted.value <= Limits(T).max
    THEN Ok(str, converted.value)
    ELSE Raise(str, "String::to: Could not convert string to that type.")

\* An unsigned radixTo without the test for a leading minus sign.
radixToUnchecked(str, data, T, radix) ==
    IF Limits(T).signed
    THEN radixConvert(str, T, stoll(data, radix))
    ELSE radixConvert(str, T, stoull(data, radix))

\* radixTo<T>(const std::string& str, int radix), signed and unsigned; data
\* is the std::string passed, str the String it came from.
radixTo(str, data, T, radix) ==
    IF Limits(T).signed
    THEN radixConvert(str, T, stoll(data, radix))
    ELSE IF Len(data) = 0 \/ data[1] = 45
    THEN radixConvert(str, T, [thrown |-> TRUE, wrapped |-> FALSE, value |-> 0])
    ELSE radixConvert(str, T, stoull(data, radix))

\* toImpl(const std::string&, Box<bool>) and toImpl(const std::string&,
\* Box<char>), reached from String::to<T>(const String&).
to(str, T) ==
    CASE T = "bool" ->
           IF str.data = TextTrue THEN Ok(str, TRUE)
           ELSE IF str.data = TextFalse THEN Ok(str, FALSE)
           ELSE Raise(str, "String::to: Boolean values must be either 'true' or 'false'")
      [] T = "char" ->
           IF Len(str.data) # 1
           THEN Raise(str, "String::to: String must have length one to be converted to a char.")
           ELSE Ok(str, str.data[1])

\* String::to<T>(const String& str, int radix)
toRadix(str, T, radix) ==
    IF radix < 2 \/ radix > 36
    THEN Raise(str, "String::to: Radix must be between 2 and 36, inclusive.")
    ELSE radixTo(str, trimmed(str).ret.data, T, radix)

\* String::is<T>(const String& str): the function try block turns every
\* ErrorException of to<T> into false.
is(str, T) ==
    IF to(str, T).err = "none" THEN Ok(str, TRUE) ELSE Ok(str, FALSE)

\* An is<T>(str, radix) that leaves the radix to to<T> and catches its error.
isRadixUnchecked(str, T, radix) ==
    IF toRadix(str, T, radix).err = "none" THEN Ok(str, TRUE) ELSE Ok(str, FALSE)

\* String::is<T>(const String& str, int radix)
isRadix(str, T, radix) ==
    IF radix < 2 \/ radix > 36
    THEN Raise(str, "String::is: Radix must be between 2 and 36, inclusive.")
    ELSE IF toRadix(str, T, radix).err = "none" THEN Ok(str, TRUE)
    ELSE Ok(str, FALSE)

(***************************************************************************)
(* The conversion specification: a String of any text over ConvChars, or   *)
(* one of the words true, false, maybe, and the conversions applied to it. *)
(***************************************************************************)
\* Longest text converted.
MaxText == 3

\* ' ', '+', '-', '0', '1', '8', 'F', 'x'
ConvChars == {32, 43, 45, 48, 49, 56, 70, 120}
ConvTexts == SeqsUpTo(ConvChars, MaxText) \cup {TextTrue, TextFalse, TextMaybe}
Radixes == {1, 2, 10, 16, 36, 37}
PlainTypes == {"bool", "char"}

InitConv ==
    /\ this \in {NewString(d) : d \in ConvTexts}
    /\ cursor = NoCursor
    /\ mutated = "no"
    /\ call = Idle
    /\ other = <<>>
    /\ stack = <<>>

\* A call of a static member function on the String this.
Static(op, args, res) ==
    /\ call.op = "none"
    /\ call' = Called(op, args, res)
    /\ UNCHANGED <<this, cursor, mutated, other, stack>>

To == \E T \in PlainTypes : Static("to", <<T>>, to(this, T))

Is == \E T \in PlainTypes : Static("is", <<T>>, is(this, T))

ToRadix == \E T \in IntegralTypes, radix \in Radixes :
    Static("toRadix", <<T, radix>>, toRadix(this, T, radix))

IsRadix == \E T \in IntegralTypes, radix \in Radixes :
    Static("isRadix", <<T, radix>>, isRadix(this, T, radix))

NextConv == To \/ Is \/ ToRadix \/ IsRadix \/ Return

SpecConv == InitConv /\ [][NextConv]_vars

(***************************************************************************)
(* Relational operators.  The evaluation of one comparison is a stack of   *)
(* frames [fn, a, b, phase, value]: fn is the operator function entered, a *)
(* the bytes of its String operand (the receiver of a member, the rhs of a *)
(* global operator), b the bytes of its text operand, phase "call" until   *)
(* the body has run, "wait" while a callee runs, "done" with the value     *)
(* once it has returned.                                                   *)
(***************************************************************************)
\* std::lexicographical_compare(a.begin(), a.end(), b.begin(), b.end()) from
\* index i on.
RECURSIVE lexicographical_compare(_, _, _)
lexicographical_compare(a, b, i) ==
    IF i < Len(a) /\ i < Len(b)
    THEN IF a[i + 1] < b[i + 1] THEN TRUE
         ELSE IF b[i + 1] < a[i + 1] THEN FALSE
         ELSE lexicographical_compare(a, b, i + 1)
    ELSE i = Len(a) /\ i # Len(b)

\* std::equal(begin(), end(), lhs.begin()), for ranges of one length.
stdEqual(a, b) == \A i \in 1..Len(a) : a[i] = b[i]

MemberOperators == {"String::operator<", "String::operator>",
                    "String::operator==", "String::operator!=",
                    "String::operator<=", "String::operator>="}
GlobalOperators == {"operator<(Text, String)", "operator>(Text, String)",
                    "operator==(Text, String)", "operator!=(Text, String)",
                    "operator<=(Text, String)", "operator>=(Text, String)"}
RelationalOperators == MemberOperators \cup GlobalOperators

\* The operator functions whose body makes no call to another of them.
LeafOperators == {"String::operator<", "String::operator=="}

\* String::operator<(StringView lhs) const and String::operator==(StringView
\* lhs) const: the value returned.
leafValue(fn, a, b) ==
    IF fn = "String::operator<"
    THEN lexicographical_compare(a, b, 0)
    ELSE Len(a) = Len(b) /\ stdEqual(a, b)

\* The operator function the body of fn calls.  In String::operator> and
\* String::operator<= the expression lhs < StringView(*this) has a
\* StringView on the left, so it is the global operator<(const Text&, const
\* String&) with Text = StringView, its rhs a String built from the view.
callee(fn) ==
    CASE fn = "String::operator>" -> "operator<(Text, String)"
      [] fn = "String::operator!=" -> "String::operator=="
      [] fn = "String::operator<=" -> "operator<(Text, String)"
      [] fn = "String::operator>=" -> "String::operator<"
      [] fn = "operator==(Text, String)" -> "String::operator=="
      [] fn = "operator!=(Text, String)" -> "String::operator!="
      [] fn = "operator<(Text, String)" -> "String::operator>"
      [] fn = "operator<=(Text, String)" -> "String::operator>="
      [] fn = "operator>=(Text, String)" -> "String::operator<="
      [] fn = "operator>(Text, String)" -> "String::operator>"

\* The operator functions that return the negation of what their callee
\* returned.
Negating == {"String::operator!=", "String::operator<=", "String::operator>="}

Frame(fn, a, b) == [fn |-> fn, a |-> a, b |-> b, phase |-> "call", value |-> FALSE]

Top == stack[Len(stack)]

SetTop(frame) == [stack EXCEPT ![Len(stack)] = frame]

\* Frames the program's stack has room for.
MaxDepth == 6
\* Longest operand of a comparison.
MaxCmpLen == 2

\* 'a', 'b'
CmpChars == {97, 98}
CmpTexts == SeqsUpTo(CmpChars, MaxCmpLen)

InitCmp ==
    /\ this \in {NewString(d) : d \in CmpTexts}
    /\ other \in CmpTexts
    /\ cursor = NoCursor
    /\ mutated = "no"
    /\ call = Idle
    /\ stack = <<>>

\* The client evaluates this op other (a member operator) or other op this
\* (a global one).
Compare == \E fn \in RelationalOperators :
    /\ call.op = "none"
    /\ stack = <<>>
    /\ stack' = <<Frame(fn, this.data, other)>>
    /\ call' = [Idle EXCEPT !.op = "comparing", !.args = <<fn>>]
    /\ UNCHANGED <<this, cursor, mutated, other>>

\* The body of a leaf operator runs and returns.
CmpLeaf ==
    /\ stack # <<>>
    /\ Top.phase = "call"
    /\ Top.fn \in LeafOperators
    /\ stack' = SetTop([Top EXCEPT !.phase = "done",
                                   !.value = leafValue(Top.fn, Top.a, Top.b)])
    /\ UNCHANGED <<this, cursor, mutated, call, other>>

\* The body of a forwarding operator calls its callee, on the same operands.
CmpForward ==
    /\ stack # <<>>
    /\ Top.phase = "call"
    /\ Top.fn \notin LeafOperators
    /\ Len(stack) < MaxDepth
    /\ stack' = Append(SetTop([Top EXCEPT !.phase = "wait"]),
                       Frame(callee(Top.fn), Top.a, Top.b))
    /\ UNCHANGED <<this, cursor, mutated, call, other>>

\* The call of the callee finds no room on the stack: the program dies.
CmpOverflow ==
    /\ stack # <<>>
    /\ Top.phase = "call"
    /\ Top.fn \notin LeafOperators
    /\ Len(stack) >= MaxDepth
    /\ stack' = <<>>
    /\ call' = Called(call.args[1], <<other>>, Raise(this, "stack overflow"))
    /\ UNCHANGED <<this, cursor, mutated, other>>

\* A callee returns to the operator that called it, which returns in turn.
CmpReturn ==
    /\ Len(stack) > 1
    /\ Top.phase = "done"
    /\ LET caller == stack[Len(stack) - 1]
           value == IF caller.fn \in Negating THEN ~Top.value ELSE Top.value
       IN  stack' = [SubSeq(stack, 1, Len(stack) - 1) EXCEPT ![Len(stack) - 1] =
                       [caller EXCEPT !.phase = "done", !.value = value]]
    /\ UNCHANGED <<this, cursor, mutated, call, other>>

\* The operator the client called returns to the client.
CmpFinish ==
    /\ Len(stack) = 1
    /\ Top.phase = "done"
    /\ stack' = <<>>
    /\ call' = Called(call.args[1], <<other>>, Ok(this, Top.value))
    /\ UNCHANGED <<this, cursor, mutated, other>>

\* The client takes the value of the comparison.
CmpTaken ==
    /\ call.op \in RelationalOperators
    /\ call' = Idle
    /\ UNCHANGED <<this, cursor, mutated, other, stack>>

NextCmp ==
    \/ Compare \/ CmpLeaf \/ CmpForward \/ CmpOverflow
    \/ CmpReturn \/ CmpFinish \/ CmpTaken

SpecCmp == InitCmp /\ [][NextCmp]_vars

(***************************************************************************)
(* The text specification: one String over TextChars with a cursor at its  *)
(* begin(), and one call of a search, slice, split, join, replace, remove, *)
(* insert or constructor on it, with every argument of the bounded sets.   *)
(* The text arguments are values of their own: none is a view of the       *)
(* receiver's buffer.                                                      *)
(***************************************************************************)
\* Longest String of the text specification.
MaxTextLen == 6
\* Longest text argument of the text specification.
MaxPattern == 2

\* 'a', 'b'
TextChars == {97, 98}
TextStrings == SeqsUpTo(TextChars, MaxTextLen)
Patterns == SeqsUpTo(TextChars, MaxPattern)
Positions == -1..(MaxTextLen + 1)

InitText ==
    /\ this \in {NewString(d) : d \in TextStrings}
    /\ cursor = begin(this)
    /\ mutated = "no"
    /\ call = Idle
    /\ other = <<>>
    /\ stack = <<>>

\* A call of a member function on the String this.
Apply(op, args, res) ==
    /\ call.op = "none"
    /\ this' = res.self
    /\ call' = Called(op, args, res)
    /\ UNCHANGED <<cursor, mutated, other, stack>>

TextReplaceAll == \E text \in Patterns, with \in Patterns :
    Apply("replaceAll", <<text, with>>, replaceAll(this, text, with))

TextSplit == \E delimiter \in Patterns :
    Apply("split", <<delimiter>>, split(this, delimiter))

\* String::join(s.split(delimiter), delimiter)
TextSplitJoin == \E delimiter \in Patterns \ {<<>>} :
    Apply("join", <<delimiter>>,
          Ok(this, join(split(this, delimiter).ret, delimiter)))

TextSubstr == \E start \in Positions, len \in Positions :
    Apply("substr", <<start, len>>, substr(this, start, len))

TextSubstr1 == \E start \in Positions :
    Apply("substr1", <<start>>, substr1(this, start))

TextFind == \E text \in Patterns, startIndex \in Positions :
    Apply("find", <<text, startIndex>>, find(this, text, startIndex))

TextFindFromBack == \E text \in Patterns, lastIndex \in Positions :
    Apply("findFromBack", <<text, lastIndex>>, findFromBack(this, text, lastIndex))

TextFindFromBack1 == \E text \in Patterns :
    Apply("findFromBack1", <<text>>, findFromBack1(this, text))

TextRemove == \E index \in Positions, len \in Positions :
    Apply("remove", <<index, len>>, remove(this, index, len))

TextInsert == \E index \in Positions, text \in Patterns :
    Apply("insert", <<index, text>>, insert(this, index, text))

TextConstruct == \E numCopies \in -1..MaxPattern, ch \in TextChars :
    Apply("String", <<numCopies, ch>>, StringCopies(this, numCopies, ch))

NextText ==
    \/ TextReplaceAll \/ TextSplit \/ TextSplitJoin
    \/ TextSubstr \/ TextSubstr1
    \/ TextFind \/ TextFindFromBack \/ TextFindFromBack1
    \/ TextRemove \/ TextInsert \/ TextConstruct

SpecText == InitText /\ [][NextText]_vars

(***************************************************************************)
(* The URL specification: one String over UrlChars, bytes 0..255, and one  *)
(* call of urlEncoded, of urlDecoded, or of the one on the other's result. *)
(***************************************************************************)
\* Longest String of the URL specification.
MaxUrlLen == 3

\* '\n', ' ', '%', '*', '+', '/', '2', 'B', 'f', 'g', 0x80, 0xFF
UrlChars == {10, 32, 37, 42, 43, 47, 50, 66, 102, 103, 128, 255}
UrlStrings == SeqsUpTo(UrlChars, MaxUrlLen)

InitUrl ==
    /\ this \in {NewString(d) : d \in UrlStrings}
    /\ cursor = NoCursor
    /\ mutated = "no"
    /\ call = Idle
    /\ other = <<>>
    /\ stack = <<>>

Encode == \E charIsSigned \in BOOLEAN :
    Apply("urlEncoded", <<charIsSigned>>, urlEncoded(this, charIsSigned))

Decode == Apply("urlDecoded", <<>>, urlDecoded(this))

\* s.urlEncoded().urlDecoded()
EncodeDecode == \E charIsSigned \in BOOLEAN :
    LET decoded == urlDecoded(urlEncoded(this, charIsSigned).ret)
    IN  Apply("urlEncoded.urlDecoded", <<charIsSigned>>,
              [self |-> this, ret |-> decoded.ret, err |-> decoded.err])

NextUrl == Encode \/ Decode \/ EncodeDecode

SpecUrl == InitUrl /\ [][NextUrl]_vars

(***************************************************************************)
(* Properties of the versioning specification.  In each, call is the call  *)
(* just made, this and cursor are the String and the cursor after it, and  *)
(* call.before holds them as they were before it.                          *)
(***************************************************************************)
OutOfRange == {"operator[]: index out of range", "remove: index out of range",
               "insert: index out of range", "substr: index out of range"}

\* Whether a use of cursor cur on String self passes the version check.
Valid(self, cur) == checkedUse(self, cur, "cmp").err = "none"

\* C1: a use of a cursor (dereference, increment, decrement, comparison)
\* made after remove, insert, trim, trimFront or trimBack has succeeded on
\* the String since the cursor was issued raises the invalidated-iterator
\* fault, also when every such call left the bytes as they were.
C1_StaleCursorFaults ==
    (call.op = "cursor" /\ mutated # "no") => call.err = "invalidated iterator"

\* A cursor is used after calls that succeeded without changing a byte.
C1_Witness ==
    /\ call.op = "cursor"
    /\ mutated = "same bytes"
    /\ call.err = "invalidated iterator"

VersionBumping == {"remove", "remove1", "insert", "operator+=",
                   "trim", "trimFront", "trimBack"}

\* C2: each successful remove(index), remove(index, length), insert,
\* operator+=, trim, trimFront and trimBack adds exactly one to the version
\* counter, whether or not it changed a byte, and no call makes the counter
\* smaller.
C2_VersionOncePerMutation ==
    /\ (call.op \in VersionBumping /\ call.err = "none")
         => this.version = call.before.this.version + 1
    /\ call.op # "none" => this.version >= call.before.this.version

\* A mutating call has succeeded and left the bytes as they were.
C2_Witness ==
    /\ call.op \in VersionBumping
    /\ call.err = "none"
    /\ this.data = call.before.this.data

CaseConversions == {"toUpperCase", "toLowerCase"}

\* C3, as claimed: toUpperCase() and toLowerCase() increment the version
\* counter on every call.
C3_Original ==
    call.op \in CaseConversions => this.version > call.before.this.version

\* C3, amended: toUpperCase() and toLowerCase() leave the version counter
\* as it was, so a cursor that was valid before the call is valid after it.
C3_CaseKeepsVersion ==
    call.op \in CaseConversions
      => /\ this.version = call.before.this.version
         /\ cursor = call.before.cursor
         /\ Valid(this, cursor) = Valid(call.before.this, call.before.cursor)

\* toUpperCase() has changed a byte while a valid cursor is held.
C3_Witness ==
    /\ call.op = "toUpperCase"
    /\ this.data # call.before.this.data
    /\ cursor # NoCursor
    /\ Valid(call.before.this, call.before.cursor)

\* C4, as claimed: text[i] = c makes text[i] read c, leaves the other bytes
\* and the length, and leaves the version counter strictly greater.
C4_Original ==
    (call.op = "operator[]=" /\ call.err = "none")
      => /\ operatorIndex(this, call.args[1]).ret = call.args[2]
         /\ this.data = [call.before.this.data EXCEPT ![call.args[1] + 1] = call.args[2]]
         /\ this.version > call.before.this.version

\* C4, amended: text[i] = c makes text[i] read c, leaves the other bytes
\* and the length, and leaves the version counter as it was.
C4_StoreThenRead ==
    (call.op = "operator[]=" /\ call.err = "none")
      => /\ operatorIndex(this, call.args[1]).err = "none"
         /\ operatorIndex(this, call.args[1]).ret = call.args[2]
         /\ this.data = [call.before.this.data EXCEPT ![call.args[1] + 1] = call.args[2]]
         /\ this.version = call.before.this.version

\* A store through operator[] has changed the last char of a String of
\* more than one char.
C4_Witness ==
    /\ call.op = "operator[]="
    /\ call.err = "none"
    /\ call.args[1] = Len(this.data) - 1
    /\ call.args[1] > 0
    /\ this.data # call.before.this.data

ConstCalls == {"asUpperCase", "asLowerCase", "trimmed", "frontTrimmed",
               "backTrimmed", "substr", "substr1", "split", "find", "contains",
               "urlEncoded", "urlDecoded"}

\* C5: asUpperCase, asLowerCase, trimmed, frontTrimmed, backTrimmed, substr,
\* split, find, contains, urlEncoded and urlDecoded leave the bytes and the
\* version counter of the receiver as they were, and a cursor that was valid
\* before the call is valid after it.
C5_ConstCallsFrame ==
    call.op \in ConstCalls
      => /\ this = call.before.this
         /\ cursor = call.before.cursor
         /\ Valid(this, cursor) = Valid(call.before.this, call.before.cursor)

\* trimmed() has returned a copy that differs from the receiver while a
\* valid cursor into the receiver is held.
C5_Witness ==
    /\ call.op = "trimmed"
    /\ call.ret.data # this.data
    /\ cursor # NoCursor
    /\ Valid(call.before.this, call.before.cursor)

ElementCalls == {"operator[] const", "operator[]="}
PositionCalls == {"insert", "substr", "substr1", "remove", "remove1"}

\* C6: operator[](index) raises the out-of-range error exactly when
\* index < 0 or index > length() - 1; insert, substr and remove raise it
\* exactly when index < 0 or index > length().
C6_IndexValidation ==
    /\ call.op \in ElementCalls
         => (call.err \in OutOfRange
               <=> \/ call.args[1] < 0
                   \/ call.args[1] > length(call.before.this) - 1)
    /\ call.op \in PositionCalls
         => (call.err \in OutOfRange
               <=> \/ call.args[1] < 0
                   \/ call.args[1] > length(call.before.this))

\* insert at index == length() of a String that is not empty was accepted.
C6_Witness ==
    /\ call.op = "insert"
    /\ call.err = "none"
    /\ call.args[1] = length(call.before.this)
    /\ call.args[1] > 0

(***************************************************************************)
(* Properties of the conversion specification.  The text converted is      *)
(* call.before.this.data; Numeral and NumeralValue say what a numeral of a *)
(* radix is and what it denotes, without reference to the parser.          *)
(***************************************************************************)
\* The digit c stands for in the radix, or -1 when it is none.
DigitOf(c, radix) ==
    LET d == CASE c \in 48..57 -> c - 48
               [] c \in 65..90 -> c - 55
               [] c \in 97..122 -> c - 87
               [] OTHER -> -1
    IN  IF d < radix THEN d ELSE -1

\* The length of the sign and the 0x prefix that t opens with as a numeral.
SignLength(t) == IF Len(t) > 0 /\ t[1] \in {43, 45} THEN 1 ELSE 0
PrefixLength(t, radix) ==
    LET s == SignLength(t)
    IN  IF /\ radix = 16
           /\ Len(t) >= s + 3
           /\ t[s + 1] = 48
           /\ t[s + 2] \in {88, 120}
           /\ DigitOf(t[s + 3], 16) # -1
        THEN 2 ELSE 0

\* t is a numeral of the radix: an optional sign, for radix 16 an optional
\* 0x, then one digit or more and nothing else.
Numeral(t, radix) ==
    LET body == SignLength(t) + PrefixLength(t, radix)
    IN  /\ Len(t) > body
        /\ \A i \in (body + 1)..Len(t) : DigitOf(t[i], radix) # -1

RECURSIVE Power(_, _)
Power(b, e) == IF e = 0 THEN 1 ELSE b * Power(b, e - 1)

RECURSIVE SumOver(_, _, _)
SumOver(t, radix, i) ==
    IF i > Len(t) THEN 0
    ELSE DigitOf(t[i], radix) * Power(radix, Len(t) - i) + SumOver(t, radix, i + 1)

\* What the numeral t denotes.
NumeralValue(t, radix) ==
    LET magnitude == SumOver(t, radix, SignLength(t) + PrefixLength(t, radix) + 1)
    IN  IF SignLength(t) = 1 /\ t[1] = 45 THEN -magnitude ELSE magnitude

\* The lengths of the prefixes of t that are numerals.
NumeralPrefixes(t, radix) == {n \in 1..Len(t) : Numeral(SubSeq(t, 1, n), radix)}

Longest(S) == CHOOSE n \in S : \A m \in S : m <= n

TrimmedText(t) ==
    LET inner == {i \in 1..Len(t) : ~isspace(t[i])}
    IN  IF inner = {} THEN <<>>
        ELSE SubSeq(t, CHOOSE i \in inner : \A j \in inner : i <= j,
                       CHOOSE i \in inner : \A j \in inner : j <= i)

ValidRadix(radix) == radix \in 2..36

\* C7, as claimed: to<T>(text, radix) with a valid radix raises whenever the
\* trimmed text is not, whole, a numeral of the radix.
C7_Original ==
    (/\ call.op = "toRadix"
     /\ ValidRadix(call.args[2])
     /\ ~Numeral(TrimmedText(call.before.this.data), call.args[2]))
      => call.err # "none"

\* C8: is<T>(text) and is<T>(text, radix) with a valid radix raise nothing
\* and return true exactly when to<T> on the same arguments succeeds;
\* with a radix outside [2, 36] both to<T> and is<T> raise.
C8_IsAgreesWithTo ==
    /\ call.op = "is"
         => /\ call.err = "none"
            /\ call.ret = (to(call.before.this, call.args[1]).err = "none")
    /\ (call.op = "isRadix" /\ ValidRadix(call.args[2]))
         => /\ call.err = "none"
            /\ call.ret = (toRadix(call.before.this, call.args[1],
                                   call.args[2]).err = "none")
    /\ (call.op \in {"isRadix", "toRadix"} /\ ~ValidRadix(call.args[2]))
         => call.err # "none"

\* is<bool>("maybe") has returned false.
C8_Witness ==
    /\ call.op = "is"
    /\ call.args[1] = "bool"
    /\ call.before.this.data = TextMaybe
    /\ call.err = "none"
    /\ call.ret = FALSE

Before(a, b) ==
    \E k \in 0..Len(a) :
        /\ k <= Len(b)
        /\ \A i \in 1..k : a[i] = b[i]
        /\ \/ k = Len(a) /\ k < Len(b)
           \/ k < Len(a) /\ k < Len(b) /\ a[k + 1] < b[k + 1]

\* left op right, for the relational operator that the name fn ends in.
Relation(fn, left, right) ==
    CASE fn \in {"String::operator<", "operator<(Text, String)"} -> Before(left, right)
      [] fn \in {"String::operator>", "operator>(Text, String)"} -> Before(right, left)
      [] fn \in {"String::operator<=", "operator<=(Text, String)"} -> ~Before(right, left)
      [] fn \in {"String::operator>=", "operator>=(Text, String)"} -> ~Before(left, right)
      [] fn \in {"String::operator==", "operator==(Text, String)"} -> left = right
      [] fn \in {"String::operator!=", "operator!=(Text, String)"} -> left # right

\* C10, as claimed: each of the six relational operators, with the String
\* on the left and with the String on the right, returns, and returns what
\* the byte-wise lexicographic order of its left operand against its right
\* operand gives.
C10_Original ==
    call.op \in RelationalOperators
      => /\ call.err = "none"
         /\ call.ret = IF call.op \in MemberOperators
                       THEN Relation(call.op, this.data, other)
                       ELSE Relation(call.op, other, this.data)

(***************************************************************************)
(* Properties of the text specification.  The String the call was made on  *)
(* is call.before.this; Occurrences and Chosen say where a text occurs and *)
(* which occurrences a left-to-right scan without overlap takes, without   *)
(* reference to the loops of the class.                                    *)
(***************************************************************************)
\* The indices (from 0) at which t occurs in s.
Occurrences(s, t) ==
    {i \in 0..(Len(s) - Len(t)) : SubSeq(s, i + 1, i + Len(t)) = t}

\* The leftmost non-overlapping occurrences of t: an occurrence is taken
\* exactly when no occurrence taken before it reaches into it.
Chosen(s, t) ==
    CHOOSE C \in SUBSET Occurrences(s, t) :
        \A p \in Occurrences(s, t) :
            p \in C <=> \A c \in C : c < p => c + Len(t) <= p

Least(S) == CHOOSE a \in S : \A b \in S : a <= b

\* s from index pos on, with w in place of each occurrence in C of a text of
\* n chars.
RECURSIVE Substituted(_, _, _, _, _)
Substituted(s, C, n, w, pos) ==
    LET ahead == {c \in C : c >= pos}
    IN  IF ahead = {} THEN SubSeq(s, pos + 1, Len(s))
        ELSE SubSeq(s, pos + 1, Least(ahead)) \o w
               \o Substituted(s, C, n, w, Least(ahead) + n)

\* C11: replaceAll with a non-empty target returns, and leaves the String
\* equal to the original with the replacement in place of each leftmost
\* non-overlapping occurrence of the target; what a substitution put in is
\* not searched again.
C11_ReplaceAll ==
    (call.op = "replaceAll" /\ call.args[1] # <<>>)
      => /\ call.err = "none"
         /\ this.data = Substituted(call.before.this.data,
                                    Chosen(call.before.this.data, call.args[1]),
                                    Len(call.args[1]), call.args[2], 0)

\* replaceAll("a", "aa") on "baba" has left "baabaa".
C11_Witness ==
    /\ call.op = "replaceAll"
    /\ call.args = <<(<<97>>), <<97, 97>>>>
    /\ call.before.this.data = <<98, 97, 98, 97>>
    /\ this.data = <<98, 97, 97, 98, 97, 97>>

\* Where the pieces between the occurrences in C of a text of n chars
\* start, and where the piece that starts at a ends.
PieceStarts(C, n) == {0} \cup {c + n : c \in C}
PieceEnd(s, C, a) == Least({c \in C : c >= a} \cup {Len(s)})
NonEmptyStarts(s, C, n) == {a \in PieceStarts(C, n) : PieceEnd(s, C, a) > a}

\* The k-th smallest member of S.
Kth(S, k) == CHOOSE a \in S : Cardinality({b \in S : b < a}) = k - 1

\* C12: split with an empty delimiter raises; with a non-empty one it
\* returns, in order, exactly the non-empty pieces between the leftmost
\* non-overlapping occurrences of the delimiter; no piece returned is empty
\* and none contains the delimiter.
C12_Split ==
    call.op = "split"
      => IF call.args[1] = <<>> THEN call.err # "none"
         ELSE LET s == call.before.this.data
                  d == call.args[1]
                  C == Chosen(s, d)
                  starts == NonEmptyStarts(s, C, Len(d))
              IN  /\ call.err = "none"
                  /\ Len(call.ret) = Cardinality(starts)
                  /\ \A k \in 1..Len(call.ret) :
                       /\ call.ret[k].data =
                            SubSeq(s, Kth(starts, k) + 1, PieceEnd(s, C, Kth(starts, k)))
                       /\ call.ret[k].data # <<>>
                       /\ Occurrences(call.ret[k].data, d) = {}

\* "babbab" split on "b" has returned ["a", "a"]: the leading, the trailing
\* and the adjacent delimiters gave nothing.
C12_Witness ==
    /\ call.op = "split"
    /\ call.args = <<(<<98>>)>>
    /\ call.before.this.data = <<98, 97, 98, 98, 97, 98>>
    /\ call.err = "none"
    /\ Len(call.ret) = 2
    /\ call.ret[1].data = <<97>>
    /\ call.ret[2].data = <<97>>

\* s neither starts nor ends with d and has no occurrence of d next to
\* another.
Separated(s, d) ==
    /\ 0 \notin Occurrences(s, d)
    /\ Len(s) - Len(d) \notin Occurrences(s, d)
    /\ \A p \in Occurrences(s, d) : p + Len(d) \notin Occurrences(s, d)

\* C13: for a non-empty delimiter d and a String s that neither starts nor
\* ends with d and has no two adjacent occurrences of d, join(s.split(d), d)
\* holds the bytes of s.
C13_SplitJoin ==
    (call.op = "join" /\ Separated(call.before.this.data, call.args[1]))
      => /\ call.err = "none"
         /\ call.ret.data = call.before.this.data

\* A String with the delimiter inside it, twice, has come back from
\* split and join.
C13_Witness ==
    /\ call.op = "join"
    /\ Separated(call.before.this.data, call.args[1])
    /\ Cardinality(Occurrences(call.before.this.data, call.args[1])) >= 2
    /\ call.ret.data = call.before.this.data

\* The bytes of s at the indices (from 0) from to till - 1.
Bytes(s, from, till) == [k \in 1..(till - from) |-> s[from + k]]

Greatest(S) == CHOOSE a \in S : \A b \in S : b <= a

\* C16: on a String of n bytes, substr(start, len) raises when start is
\* outside [0, n] or len is negative, and otherwise returns a String of the
\* bytes at [start, min(start + len, n)) and leaves the receiver as it was;
\* substr(start) returns the bytes at [start, n); and substr(0, a),
\* substr(a, b - a), substr(b) put together are the String, for all
\* 0 <= a <= b <= n.
C16_Substr ==
    LET s == call.before.this.data
        n == Len(s)
        start == call.args[1]
    IN  /\ call.op = "substr"
             => IF start < 0 \/ start > n \/ call.args[2] < 0
                THEN call.err # "none"
                ELSE /\ call.err = "none"
                     /\ call.ret.data = Bytes(s, start, Min(start + call.args[2], n))
                     /\ this = call.before.this
        /\ call.op = "substr1"
             => IF start < 0 \/ start > n
                THEN call.err # "none"
                ELSE /\ call.err = "none"
                     /\ call.ret.data = Bytes(s, start, n)
                     /\ this = call.before.this
        /\ call.op \in {"substr", "substr1"}
             => \A a \in 0..n : \A b \in a..n :
                    substr(this, 0, a).ret.data \o substr(this, a, b - a).ret.data
                      \o substr1(this, b).ret.data = s

\* A substr whose length ran past the end has returned the bytes there were.
C16_Witness ==
    /\ call.op = "substr"
    /\ call.err = "none"
    /\ call.args[1] > 0
    /\ call.args[1] + call.args[2] > Len(call.before.this.data)
    /\ call.ret.data # <<>>
    /\ call.ret.data = Bytes(call.before.this.data, call.args[1],
                             Len(call.before.this.data))

\* C17: find(text, start) raises when start is negative and otherwise
\* returns the smallest index i >= start at which text occurs, or -1 when
\* there is none; findFromBack(text, last) raises when last is negative and
\* otherwise returns the largest index i <= last at which text occurs, or
\* -1; findFromBack(text) returns the largest index at which text occurs,
\* or -1.
C17_Find ==
    LET hits == Occurrences(call.before.this.data, call.args[1])
    IN  /\ call.op = "find"
             => IF call.args[2] < 0 THEN call.err # "none"
                ELSE LET from == {i \in hits : i >= call.args[2]}
                     IN  /\ call.err = "none"
                         /\ call.ret = IF from = {} THEN -1 ELSE Least(from)
        /\ call.op = "findFromBack"
             => IF call.args[2] < 0 THEN call.err # "none"
                ELSE LET upTo == {i \in hits : i <= call.args[2]}
                     IN  /\ call.err = "none"
                         /\ call.ret = IF upTo = {} THEN -1 ELSE Greatest(upTo)
        /\ call.op = "findFromBack1"
             => /\ call.err = "none"
                /\ call.ret = IF hits = {} THEN -1 ELSE Greatest(hits)

\* findFromBack has returned an occurrence that is not the last one,
\* because the last one starts beyond the index given.
C17_Witness ==
    /\ call.op = "findFromBack"
    /\ call.err = "none"
    /\ call.args[1] # <<>>
    /\ call.ret >= 0
    /\ \E i \in Occurrences(call.before.this.data, call.args[1]) : i > call.args[2]

\* C18: a replaceAll that returns has raised the version by the number of
\* substitutions it made, one for each leftmost non-overlapping occurrence
\* of the target, and by nothing when the target does not occur.
C18_VersionPerSubstitution ==
    (call.op = "replaceAll" /\ call.err = "none")
      => this.version = call.before.this.version
                          + Cardinality(Chosen(call.before.this.data, call.args[1]))

\* A replaceAll has made three substitutions and raised the version by three.
C18_Witness ==
    /\ call.op = "replaceAll"
    /\ call.err = "none"
    /\ Cardinality(Chosen(call.before.this.data, call.args[1])) = 3
    /\ this.version = call.before.this.version + 3

\* C20: when remove, insert, replaceAll or String(n, ch) raises, the String
\* has the bytes and the version it had before the call, the cursor issued
\* before the call is still valid, and the constructor has produced no
\* object.
C20_FailureFrame ==
    (call.op \in {"remove", "insert", "replaceAll", "String"} /\ call.err # "none")
      => /\ this = call.before.this
         /\ cursor = call.before.cursor
         /\ checkedUse(this, cursor, "cmp").err = "none"
         /\ call.ret = NoRet

\* A remove with an index in range and a negative length has raised.
C20_Witness ==
    /\ call.op = "remove"
    /\ call.args[1] \in 0..Len(call.before.this.data)
    /\ call.args[2] < 0
    /\ call.err # "none"
    /\ this = call.before.this

(***************************************************************************)
(* Properties of the URL specification.  The classes of bytes and the      *)
(* value of a hex digit are said here anew, without reference to <cctype>. *)
(***************************************************************************)
\* Alphanumerics and - _ . ~ *
PassedThrough(b) ==
    b \in (48..57) \cup (65..90) \cup (97..122) \cup {45, 95, 46, 126, 42}

HexDigits == (48..57) \cup (65..70) \cup (97..102)

HexDigitValue(b) ==
    IF b \in 48..57 THEN b - 48 ELSE IF b \in 65..70 THEN b - 55 ELSE b - 87

Printable(s) == \A i \in 1..Len(s) : s[i] \in 32..126

\* C14: for a String of printable ASCII bytes (0x20..0x7E),
\* urlEncoded().urlDecoded() raises nothing and returns the bytes of the
\* String.
C14_UrlRoundTrip ==
    (call.op = "urlEncoded.urlDecoded" /\ Printable(call.before.this.data))
      => /\ call.err = "none"
         /\ call.ret.data = call.before.this.data

\* " %+" has come back from urlEncoded and urlDecoded.
C14_Witness ==
    /\ call.op = "urlEncoded.urlDecoded"
    /\ call.before.this.data = <<32, 37, 43>>
    /\ call.err = "none"
    /\ call.ret.data = <<32, 37, 43>>

\* The positions (from 1) of s that urlDecoded cannot accept: a '%' that two
\* hex digits do not follow, and a byte that is neither passed through nor
\* '+' nor '%'.
MalformedAt(s, p) ==
    /\ s[p] = 37
    /\ ~(p + 2 <= Len(s) /\ s[p + 1] \in HexDigits /\ s[p + 2] \in HexDigits)
InvalidAt(s, p) == ~PassedThrough(s[p]) /\ s[p] \notin {43, 37}
Offending(s) == {p \in 1..Len(s) : MalformedAt(s, p) \/ InvalidAt(s, p)}

\* The positions of s that are not one of the two hex digits of an escape.
Units(s) ==
    {p \in 1..Len(s) : ~(p > 1 /\ s[p - 1] = 37) /\ ~(p > 2 /\ s[p - 2] = 37)}

\* The byte that the unit at p stands for.
DecodedUnit(s, p) ==
    IF s[p] = 43 THEN 32
    ELSE IF s[p] = 37 THEN 16 * HexDigitValue(s[p + 1]) + HexDigitValue(s[p + 2])
    ELSE s[p]

UpperHex(d) == IF d < 10 THEN 48 + d ELSE 65 + (d - 10)

\* What urlEncoded is to emit for the byte b.
EncodedByte(b) ==
    IF PassedThrough(b) THEN <<b>>
    ELSE IF b = 32 THEN <<43>>
    ELSE <<37, UpperHex(b \div 16), UpperHex(b % 16)>>

RECURSIVE EncodedFrom(_, _)
EncodedFrom(s, p) ==
    IF p > Len(s) THEN <<>> ELSE EncodedByte(s[p]) \o EncodedFrom(s, p + 1)

\* C19, as claimed: for every byte 0..255 urlEncoded emits the byte itself
\* (alphanumeric or one of - _ . ~ *), a '+' (space), or '%' and the two
\* uppercase hex digits of the byte's value, bytes from 0x80 on included.
C19_Original ==
    call.op = "urlEncoded"
      => /\ call.err = "none"
         /\ call.ret.data = EncodedFrom(call.before.this.data, 1)

====
